---- MODULE Spec2Model ----
(***************************************************************************)
(* The out-of-process plugin scanner of the audio plugin host:             *)
(* CustomPluginScanner (the coordinator), its Superprocess worker handle,  *)
(* the transport thread's callbacks and the settings observer.             *)
(*                                                                         *)
(* Two threads are modelled.  The caller thread runs findPluginTypesFor    *)
(* and scanFinished; its position is pc, named after the source line it    *)
(* is about to execute.  The transport thread of the live worker runs      *)
(* handleMessageFromWorker and handleConnectionLost; its position is tpc.  *)
(* The settings store, the shutdown predicate and the worker process are   *)
(* the environment.  This is the specification Spec (FairSpec with the     *)
(* threads' fairness).                                                     *)
(*                                                                         *)
(* Four smaller specifications cover code beside the protocol, each over   *)
(* its own variables: WireSpec (the request block, lines 69-74), QuitSpec  *)
(* (MainHostWindow::tryToQuitApplication), FilterSpec                      *)
(* (juce::createPluginFilterOfType) and DropSpec                           *)
(* (MainHostWindow::filesDropped).                                         *)
(***************************************************************************)
EXTENDS Integers, Sequences, FiniteSets, TLC

\* ---------------------------------------------------------------- bounds
\* number of findPluginTypesFor calls explored (request ids are 1..MaxCalls)
MaxCalls == 2
\* number of worker processes that may be launched
MaxWorkers == 2
\* number of child records in one reply document
MaxItems == 2
\* number of descriptors the in-process enumeration of one file may yield
MaxInProc == 1
\* the longest format name and file-or-identifier string, in code points
MaxStrLen == 2
\* invocations of tryToQuitApplication, open plugin windows, modal components
MaxInvocations == 3
MaxWindows == 1
MaxModals == 1
\* calls of createPluginFilterOfType
MaxCreates == 3
\* calls of filesDropped, and files in one drop
MaxDrops == 2
MaxFiles == 2

\* the scan mode combo box has the items 0 ("In-process") and 1 ("Out-of-process")
MaxModeIndex == 1

VARIABLES
    \* ---- CustomPluginScanner fields
    scanInProcess,      \* std::atomic<bool> scanInProcess
    superprocess,       \* std::unique_ptr<Superprocess>: Null or a worker id
    mutex,              \* std::mutex: "free", "caller" or "transport"
    notified,           \* condvar: a notify_one reached the waiting caller
    pluginDescription,  \* std::unique_ptr<XmlElement>: NullXml or a document
    gotResponse,
    connectionLost,
    \* ---- the caller thread inside findPluginTypesFor
    pc,                 \* "idle" or the source line about to be executed
    result,             \* descriptors added to the caller's array by this call
    ret,                \* the returned bool (FALSE until the call returns)
    \* ---- the environment
    storedMode,         \* settings store: <<>> (key missing) or <<value>>
    hasSettings,        \* getUserSettings() != nullptr
    shouldExit,         \* the shutdown predicate shouldExit()
    alive,              \* the Superprocess objects that exist
    launches,           \* workers launched so far
    wLaunched,          \* the live worker's process was launched successfully
    wLost,              \* the live worker's connection is lost
    wQueue,             \* requests received by the live worker, not yet answered
    tpc,                \* transport thread: "idle", "msg", "msgLocked", "lost", "lostLocked"
    tmsg,               \* the document parsed by handleMessageFromWorker
    \* ---- history of the current call
    calls,              \* calls started so far; the current call's request id
    startMode,          \* scanInProcess at the moment the call started
    callWorker,         \* superprocess at the moment the call started
    sends,              \* sendMessageToWorker invocations of this call
    sendOk,             \* the value sendMessageToWorker returned
    callLaunches,       \* workers launched by this call
    waited,             \* the call reached the monitor wait
    enumerated,         \* the call invoked format.findAllTypesForFile
    exitInWait,         \* shouldExit became true while the call was blocked waiting
    lostInWait,         \* handleConnectionLost ran while the call was blocked waiting
    delivered,          \* callbacks that ran after this call's send: subset of {"reply", "lost"}
    callReply,          \* the reply bytes answering this call's request, once delivered
    exit90,             \* the value shouldExit() returned at line 90
    lossInCall,         \* the worker's connection was lost during this call
    outcome,            \* which return statement ended the call
    consumedBy,         \* <<request, call>>: call decoded the reply to request
    finPending,         \* scanFinished ran and no worker was launched since
    last,               \* the operation that led here: "ret", "fin" or "other"
    \* ---- the request of one out-of-process call (lines 69-74)
    wpc,                \* "off", "idle" or the source line about to be executed
    formatName,         \* format.getName(), a sequence of code points
    fileOrIdentifier,   \* the fileOrIdentifier argument, a sequence of code points
    block,              \* MemoryBlock block: the units written to it so far
    wireSent,           \* the blocks this call passed to sendMessageToWorker
    \* ---- MainHostWindow::tryToQuitApplication (lines 370-438)
    qpc,                \* "off", "idle" or the source line about to be executed
    mobile,             \* the build defines JUCE_ANDROID or JUCE_IOS
    parentAlive,        \* the MainHostWindow still exists (SafePointer parent)
    openWindows,        \* open plugin windows
    modals,             \* active modal components
    retriers,           \* AsyncQuitRetrier objects whose timer is running
    quitRequested,      \* systemRequestedQuit() calls not yet acted on
    inv,                \* invocations of tryToQuitApplication so far
    closedBy,           \* the invocations that closed a window or cancelled a modal
    reachedSave,        \* the invocations that reached line 408
    retrierLog,         \* for each AsyncQuitRetrier created, the invocation that created it
    pendingSave,        \* the invocations whose save callback has not run yet
    quitBy,             \* the invocation whose releaseAndQuit ran; 0 before any quit
    quitResult,         \* the save result that releaseAndQuit followed
    \* ---- juce::createPluginFilterOfType (juce_CreatePluginFilter.h lines 38-54)
    fpc,                \* "off", "idle" or the source line about to be executed
    type,               \* the requested AudioProcessor::WrapperType
    typeOfNextNewPlugin, \* what AudioProcessor::setTypeOfNextNewPlugin stored last
    pluginInstance,     \* "nullptr", or the wrapperType of the instance created
    assertFailed,       \* a jassert at line 47 found its condition false
    created,            \* the wrapperType of each instance returned so far
    \* ---- MainHostWindow::filesDropped (lines 888-923)
    dpc,                \* "off", "idle" or the source line about to be executed
    desktop,            \* the build defines neither JUCE_ANDROID nor JUCE_IOS
    graphHolder,        \* graphHolder != nullptr
    graph,              \* graphHolder->graph.get() != nullptr
    files,              \* the files argument of the call under way
    dropLog,            \* the files argument of every call so far
    pendingLoad,        \* save callbacks not yet run: [drop, parent, firstFile]
    reported,           \* <<drop, r>>: the save step of that drop reported r
    loaded,             \* <<drop, file>>: g->loadFrom (file, true) ran for that drop
    scanned             \* <<drop, file>>: file was passed to scanAndAddDragAndDroppedFiles

vars == << scanInProcess, superprocess, mutex, notified, pluginDescription,
           gotResponse, connectionLost, pc, result, ret, storedMode, hasSettings,
           shouldExit, alive, launches, wLaunched, wLost, wQueue, tpc, tmsg,
           calls, startMode, callWorker, sends, sendOk, callLaunches, waited,
           enumerated, exitInWait, lostInWait, delivered, callReply, exit90,
           lossInCall, outcome, consumedBy, finPending, last >>

wireVars == << wpc, formatName, fileOrIdentifier, block, wireSent >>

quitVars == << qpc, mobile, parentAlive, openWindows, modals, retriers, quitRequested,
               inv, closedBy, reachedSave, retrierLog, pendingSave, quitBy, quitResult >>

filterVars == << fpc, type, typeOfNextNewPlugin, pluginInstance, assertFailed, created >>

dropVars == << dpc, desktop, graphHolder, graph, files, dropLog, pendingLoad, reported,
               loaded, scanned >>

\* what the scan protocol leaves alone
sideVars == << wireVars, quitVars, filterVars, dropVars >>

\* what request building leaves alone
outsideWire == << vars, quitVars, filterVars, dropVars >>

\* what tryToQuitApplication leaves alone
outsideQuit == << vars, wireVars, filterVars, dropVars >>

\* what createPluginFilterOfType leaves alone
outsideFilter == << vars, wireVars, quitVars, dropVars >>

\* what filesDropped leaves alone
outsideDrop == << vars, wireVars, quitVars, filterVars >>

coordVars == << superprocess, mutex, notified, pluginDescription, gotResponse, connectionLost >>
workerVars == << alive, launches, wLaunched, wLost, wQueue, tpc, tmsg >>
settingsVars == << scanInProcess, storedMode, hasSettings >>
callHist == << calls, startMode, callWorker, sends, sendOk, callLaunches, waited,
               enumerated, exitInWait, lostInWait, delivered, callReply, exit90,
               lossInCall, outcome, consumedBy >>

\* ---------------------------------------------------------------- values
Null == 0
WorkerIds == 1..MaxWorkers
NullXml == [req |-> 0, items |-> << >>]
NoReply == [req |-> 0, wellFormed |-> FALSE, items |-> << >>]

\* the child records of a reply: TRUE is a record loadFromXml accepts
ItemSeqs == UNION { [1..n -> BOOLEAN] : n \in 0..MaxItems }

\* the bytes a worker may answer request r with: a document, or text that is
\* empty or does not parse
Replies(r) ==
    { [req |-> r, wellFormed |-> TRUE, items |-> s] : s \in ItemSeqs }
        \cup { [req |-> r, wellFormed |-> FALSE, items |-> << >>] }

StoredValues == { << >> } \cup { << v >> : v \in 0..MaxModeIndex }

\* ------------------------------------------------------- pure functions
\* PropertySet::getIntValue: the stored integer, 0 when the key is missing
getIntValue(stored) == IF stored = << >> THEN 0 ELSE stored[1]

\* fault variant: the comparison with 0 inverted
ScanModeInverted(stored) == getIntValue(stored) # 0

\* the value changeListenerCallback assigns to scanInProcess
ScanModeIsInProcess(stored) == getIntValue(stored) = 0

\* parseXML (mb.toString()): the document, or nullptr for empty or unparsable text
parseXML(raw) ==
    IF raw.wellFormed THEN [req |-> raw.req, items |-> raw.items] ELSE NullXml

\* PluginDescription::loadFromXml on child record i of a document
loadFromXml(xml, i) == xml.items[i]

RECURSIVE AddLoaded(_, _, _)
AddLoaded(xml, i, acc) ==
    IF i > Len(xml.items) THEN acc
    ELSE AddLoaded(xml, i + 1,
                   IF loadFromXml(xml, i) THEN Append(acc, << xml.req, i >>) ELSE acc)

\* fault variant: only the first child record is looked at
DecodeFirstOnly(xml) ==
    IF xml # NullXml /\ Len(xml.items) > 0 /\ loadFromXml(xml, 1)
        THEN << << xml.req, 1 >> >> ELSE << >>

RECURSIVE AddUntilBad(_, _, _)
AddUntilBad(xml, i, acc) ==
    IF i > Len(xml.items) \/ ~loadFromXml(xml, i) THEN acc
    ELSE AddUntilBad(xml, i + 1, Append(acc, << xml.req, i >>))

\* fault variant: the loop stops at the first record that fails to load
DecodeUntilBad(xml) == IF xml # NullXml THEN AddUntilBad(xml, 1, << >>) ELSE << >>

\* lines 102-111: the descriptors added for the stored document
Decode(xml) == IF xml # NullXml THEN AddLoaded(xml, 1, << >>) ELSE << >>

\* format.findAllTypesForFile: k descriptors found in the host process
InProcessTypes(k) == [i \in 1..k |-> << 0, i >>]

\* ------------------------------------------------ branch conditions
\* fault variant: the mode is cached at construction instead of read per call
ModeReadCached == TRUE

\* line 54: the atomic load of scanInProcess
ModeRead == scanInProcess

\* fault variant: a worker is launched on every call
NeedsLaunchAlways == TRUE

\* line 61
NeedsLaunch == superprocess = Null

\* fault variant: the loop also ends when wait_for times out
WaitPredicateOrTimeout == TRUE

\* line 84: the predicate of wait_for
WaitPredicate == gotResponse \/ shouldExit

\* fault variant: an unbounded condvar.wait in place of wait_for
TimeoutNever == FALSE

\* lines 82-83: wait_for gives up after 50 ms, so the wait always ends
TimeoutElapsed == TRUE

\* ------------------------------------------------ return values
\* line 58
RetInProc == TRUE

\* line 93
RetShutdown == TRUE

\* fault variant: a lost connection reported as success
RetLostTrue == TRUE
\* line 99
RetLost == FALSE

\* fault variant: a reply without a document reported as a failure
RetReplyIfDocument == pluginDescription # NullXml
\* line 113
RetReply == TRUE

\* line 117
RetSendFail == FALSE

\* ------------------------------------------------ the worker handle
\* fault variant: the handle is destroyed but a callback already under way
\* is left to run
DestroyKeepsCallback ==
    /\ superprocess' = Null
    /\ alive' = alive \ {superprocess}
    /\ wLaunched' = FALSE
    /\ wLost' = FALSE
    /\ wQueue' = << >>
    /\ UNCHANGED << tpc, tmsg, launches >>

\* ~Superprocess: the worker process is terminated and its transport thread
\* stopped; a callback that has not yet taken the mutex never runs
DestroySuperprocess ==
    /\ superprocess' = Null
    /\ alive' = alive \ {superprocess}
    /\ wLaunched' = FALSE
    /\ wLost' = FALSE
    /\ wQueue' = << >>
    /\ tpc' = "idle"
    /\ tmsg' = NullXml
    /\ UNCHANGED launches

\* fault variant: the handle is not reset
KeepSuperprocess == UNCHANGED << superprocess, workerVars >>

\* the destructor waits for a running callback to finish, unless the caller
\* itself holds the mutex the callback is blocked on
JoinTransport == tpc = "idle" \/ mutex = "caller"

\* Superprocess constructor (line 63, lines 129-133): launchWorkerProcess
LaunchWorker(ok) ==
    /\ superprocess' = launches + 1
    /\ alive' = alive \cup {launches + 1}
    /\ launches' = launches + 1
    /\ wLaunched' = ok
    /\ wLost' = FALSE
    /\ wQueue' = << >>
    /\ tpc' = "idle"
    /\ tmsg' = NullXml

\* sendMessageToWorker: fails when the process was not launched or the
\* connection is down; a write to a live connection can fail too
SendResults == IF wLaunched /\ ~wLost THEN BOOLEAN ELSE {FALSE}

\* condvar.notify_one
Notify == notified' = (notified \/ pc = "wait")

\* fault variant: the flag and the stored document are not reset
KeepStoredReply ==
    /\ UNCHANGED << gotResponse, pluginDescription >>

\* lines 77-78
ResetBeforeWait ==
    /\ gotResponse' = FALSE
    /\ pluginDescription' = NullXml

\* ---------------------------------------------------------------- Init
\* request building is not under observation while the scan protocol is
WireOff ==
    /\ wpc = "off"
    /\ formatName = << >>
    /\ fileOrIdentifier = << >>
    /\ block = << >>
    /\ wireSent = << >>

\* quitting is not under observation either
QuitOff ==
    /\ qpc = "off"
    /\ mobile = FALSE
    /\ parentAlive = TRUE
    /\ openWindows = 0
    /\ modals = 0
    /\ retriers = 0
    /\ quitRequested = 0
    /\ inv = 0
    /\ closedBy = {}
    /\ reachedSave = {}
    /\ retrierLog = << >>
    /\ pendingSave = {}
    /\ quitBy = 0
    /\ quitResult = "none"

\* no plugin instance is being created
FilterOff ==
    /\ fpc = "off"
    /\ type = "wrapperType_Undefined"
    /\ typeOfNextNewPlugin = "wrapperType_Undefined"
    /\ pluginInstance = "nullptr"
    /\ assertFailed = FALSE
    /\ created = << >>

\* nothing is being dropped on the window
DropOff ==
    /\ dpc = "off"
    /\ desktop = TRUE
    /\ graphHolder = TRUE
    /\ graph = TRUE
    /\ files = << >>
    /\ dropLog = << >>
    /\ pendingLoad = {}
    /\ reported = {}
    /\ loaded = {}
    /\ scanned = {}

\* the state after the constructor (lines 36-42), which runs
\* changeListenerCallback once
ScannerInit ==
    /\ hasSettings \in BOOLEAN
    /\ storedMode \in StoredValues
    /\ scanInProcess = (IF hasSettings THEN ScanModeIsInProcess(storedMode) ELSE TRUE)
    /\ superprocess = Null
    /\ mutex = "free"
    /\ notified = FALSE
    /\ pluginDescription = NullXml
    /\ gotResponse = FALSE
    /\ connectionLost = FALSE
    /\ pc = "idle"
    /\ result = << >>
    /\ ret = FALSE
    /\ shouldExit = FALSE
    /\ alive = {}
    /\ launches = 0
    /\ wLaunched = FALSE
    /\ wLost = FALSE
    /\ wQueue = << >>
    /\ tpc = "idle"
    /\ tmsg = NullXml
    /\ calls = 0
    /\ startMode = TRUE
    /\ callWorker = Null
    /\ sends = 0
    /\ sendOk = FALSE
    /\ callLaunches = 0
    /\ waited = FALSE
    /\ enumerated = FALSE
    /\ exitInWait = FALSE
    /\ lostInWait = FALSE
    /\ delivered = {}
    /\ callReply = NoReply
    /\ exit90 = FALSE
    /\ lossInCall = FALSE
    /\ outcome = "none"
    /\ consumedBy = {}
    /\ finPending = FALSE
    /\ last = "other"

\* the scanner after construction, no request under construction
Init == ScannerInit /\ WireOff /\ QuitOff /\ FilterOff /\ DropOff

\* ------------------------------------------------ findPluginTypesFor
AfterSend == {"L76", "L77", "L82", "wait", "L90", "L92", "L96", "L98", "L102"}
InProcPcs == {"L56", "L57"}
OutProcPcs == {"L61", "L65", "L66", "L74", "L116"} \cup AfterSend

\* the call begins: line 54 reads the mode flag and branches on it
FindStart ==
    /\ pc = "idle"
    /\ calls < MaxCalls
    /\ ModeRead \/ superprocess # Null \/ launches < MaxWorkers
    /\ pc' = IF ModeRead THEN "L56" ELSE "L61"
    /\ calls' = calls + 1
    /\ startMode' = scanInProcess
    /\ callWorker' = superprocess
    /\ result' = << >>
    /\ ret' = FALSE
    /\ sends' = 0
    /\ sendOk' = FALSE
    /\ callLaunches' = 0
    /\ waited' = FALSE
    /\ enumerated' = FALSE
    /\ exitInWait' = FALSE
    /\ lostInWait' = FALSE
    /\ delivered' = {}
    /\ callReply' = NoReply
    /\ exit90' = FALSE
    /\ lossInCall' = FALSE
    /\ outcome' = "none"
    /\ last' = "other"
    /\ UNCHANGED << coordVars, workerVars, settingsVars, shouldExit, consumedBy, finPending >>
    /\ UNCHANGED sideVars

\* line 56: superprocess = nullptr
L56Body == DestroySuperprocess

L56 ==
    /\ pc = "L56"
    /\ JoinTransport
    /\ L56Body
    /\ pc' = "L57"
    /\ last' = "other"
    /\ UNCHANGED << mutex, notified, pluginDescription, gotResponse, connectionLost,
                    result, ret, settingsVars, shouldExit, callHist, finPending >>
    /\ UNCHANGED sideVars

\* lines 57-58: the format enumerates in the host process; return true
L57 ==
    /\ pc = "L57"
    /\ \E k \in 0..MaxInProc : result' = result \o InProcessTypes(k)
    /\ enumerated' = TRUE
    /\ ret' = RetInProc
    /\ outcome' = "inproc"
    /\ pc' = "idle"
    /\ last' = "ret"
    /\ UNCHANGED << coordVars, workerVars, settingsVars, shouldExit, calls, startMode,
                    callWorker, sends, sendOk, callLaunches, waited, exitInWait,
                    lostInWait, delivered, callReply, exit90, lossInCall, consumedBy,
                    finPending >>
    /\ UNCHANGED sideVars

\* lines 61-63: launch a worker when there is none
L61 ==
    /\ pc = "L61"
    /\ IF NeedsLaunch
         THEN /\ launches < MaxWorkers
              /\ \E ok \in BOOLEAN : LaunchWorker(ok)
              /\ callLaunches' = callLaunches + 1
              /\ finPending' = FALSE
              /\ pc' = "L65"
         ELSE /\ pc' = "L74"
              /\ UNCHANGED << superprocess, workerVars, callLaunches, finPending >>
    /\ last' = "other"
    /\ UNCHANGED << mutex, notified, pluginDescription, gotResponse, connectionLost,
                    result, ret, settingsVars, shouldExit, calls, startMode, callWorker,
                    sends, sendOk, waited, enumerated, exitInWait, lostInWait, delivered,
                    callReply, exit90, lossInCall, outcome, consumedBy >>
    /\ UNCHANGED sideVars

\* line 65: std::unique_lock lock (mutex)
L65 ==
    /\ pc = "L65"
    /\ mutex = "free"
    /\ mutex' = "caller"
    /\ pc' = "L66"
    /\ last' = "other"
    /\ UNCHANGED << superprocess, notified, pluginDescription, gotResponse, connectionLost,
                    result, ret, workerVars, settingsVars, shouldExit, callHist, finPending >>
    /\ UNCHANGED sideVars

\* fault variant: the flag of the previous worker is not cleared
L66NoReset ==
    /\ pc = "L66"
    /\ mutex' = "free"
    /\ pc' = "L74"
    /\ last' = "other"
    /\ UNCHANGED << superprocess, notified, pluginDescription, gotResponse, connectionLost,
                    result, ret, workerVars, settingsVars, shouldExit, callHist, finPending >>
    /\ UNCHANGED sideVars

\* lines 66-67: connectionLost = false; the lock goes out of scope
L66 ==
    /\ pc = "L66"
    /\ connectionLost' = FALSE
    /\ mutex' = "free"
    /\ pc' = "L74"
    /\ last' = "other"
    /\ UNCHANGED << superprocess, notified, pluginDescription, gotResponse,
                    result, ret, workerVars, settingsVars, shouldExit, callHist, finPending >>
    /\ UNCHANGED sideVars

\* lines 69-74: build the request and send it
L74 ==
    /\ pc = "L74"
    /\ \E ok \in SendResults :
          /\ sendOk' = ok
          /\ wQueue' = IF ok THEN Append(wQueue, calls) ELSE wQueue
          /\ pc' = IF ok THEN "L76" ELSE "L116"
    /\ sends' = sends + 1
    /\ last' = "other"
    /\ UNCHANGED << coordVars, alive, launches, wLaunched, wLost, tpc, tmsg,
                    result, ret, settingsVars, shouldExit, calls, startMode, callWorker,
                    callLaunches, waited, enumerated, exitInWait, lostInWait, delivered,
                    callReply, exit90, lossInCall, outcome, consumedBy, finPending >>
    /\ UNCHANGED sideVars

\* line 76: std::unique_lock lock (mutex)
L76 ==
    /\ pc = "L76"
    /\ mutex = "free"
    /\ mutex' = "caller"
    /\ pc' = "L77"
    /\ last' = "other"
    /\ UNCHANGED << superprocess, notified, pluginDescription, gotResponse, connectionLost,
                    result, ret, workerVars, settingsVars, shouldExit, callHist, finPending >>
    /\ UNCHANGED sideVars

\* lines 77-78: gotResponse = false; pluginDescription = nullptr
L77 ==
    /\ pc = "L77"
    /\ ResetBeforeWait
    /\ pc' = "L82"
    /\ last' = "other"
    /\ UNCHANGED << superprocess, mutex, notified, connectionLost,
                    result, ret, workerVars, settingsVars, shouldExit, callHist, finPending >>
    /\ UNCHANGED sideVars

\* lines 80-88: wait_for evaluates the predicate with the mutex held and, when
\* it is false, releases the mutex and sleeps
L82 ==
    /\ pc = "L82"
    /\ waited' = TRUE
    /\ IF WaitPredicate
         THEN /\ pc' = "L90"
              /\ UNCHANGED << mutex, notified >>
         ELSE /\ pc' = "wait"
              /\ mutex' = "free"
              /\ notified' = FALSE
    /\ last' = "other"
    /\ UNCHANGED << superprocess, pluginDescription, gotResponse, connectionLost,
                    result, ret, workerVars, settingsVars, shouldExit, calls, startMode,
                    callWorker, sends, sendOk, callLaunches, enumerated, exitInWait,
                    lostInWait, delivered, callReply, exit90, lossInCall, outcome,
                    consumedBy, finPending >>
    /\ UNCHANGED sideVars

\* the sleeping caller is woken by notify_one or by the 50 ms timeout, takes
\* the mutex again and re-evaluates the predicate
WakeUp ==
    /\ pc = "wait"
    /\ mutex = "free"
    /\ notified \/ TimeoutElapsed
    /\ mutex' = "caller"
    /\ notified' = FALSE
    /\ pc' = "L82"
    /\ last' = "other"
    /\ UNCHANGED << superprocess, pluginDescription, gotResponse, connectionLost,
                    result, ret, workerVars, settingsVars, shouldExit, callHist, finPending >>
    /\ UNCHANGED sideVars

\* fault variant: connectionLost is checked before the shutdown predicate
L90LostFirst ==
    /\ pc = "L90"
    /\ exit90' = shouldExit
    /\ pc' = IF connectionLost THEN "L98" ELSE IF shouldExit THEN "L92" ELSE "L96"
    /\ last' = "other"
    /\ UNCHANGED << coordVars, result, ret, workerVars, settingsVars, shouldExit, calls,
                    startMode, callWorker, sends, sendOk, callLaunches, waited, enumerated,
                    exitInWait, lostInWait, delivered, callReply, lossInCall, outcome,
                    consumedBy, finPending >>
    /\ UNCHANGED sideVars

\* line 90: if (shouldExit())
L90 ==
    /\ pc = "L90"
    /\ exit90' = shouldExit
    /\ pc' = IF shouldExit THEN "L92" ELSE "L96"
    /\ last' = "other"
    /\ UNCHANGED << coordVars, result, ret, workerVars, settingsVars, shouldExit, calls,
                    startMode, callWorker, sends, sendOk, callLaunches, waited, enumerated,
                    exitInWait, lostInWait, delivered, callReply, lossInCall, outcome,
                    consumedBy, finPending >>
    /\ UNCHANGED sideVars

\* line 92: superprocess = nullptr
L92Body == DestroySuperprocess

\* lines 92-93: tear the worker down, return true; the lock goes out of scope
L92 ==
    /\ pc = "L92"
    /\ JoinTransport
    /\ L92Body
    /\ ret' = RetShutdown
    /\ outcome' = "shutdown"
    /\ mutex' = "free"
    /\ pc' = "idle"
    /\ last' = "ret"
    /\ UNCHANGED << notified, pluginDescription, gotResponse, connectionLost, result,
                    settingsVars, shouldExit, calls, startMode, callWorker, sends, sendOk,
                    callLaunches, waited, enumerated, exitInWait, lostInWait, delivered,
                    callReply, exit90, lossInCall, consumedBy, finPending >>
    /\ UNCHANGED sideVars

\* line 96: if (connectionLost)
L96 ==
    /\ pc = "L96"
    /\ pc' = IF connectionLost THEN "L98" ELSE "L102"
    /\ last' = "other"
    /\ UNCHANGED << coordVars, result, ret, workerVars, settingsVars, shouldExit,
                    callHist, finPending >>
    /\ UNCHANGED sideVars

\* line 98: superprocess = nullptr
L98Body == DestroySuperprocess

\* lines 98-99: tear the worker down, return false
L98 ==
    /\ pc = "L98"
    /\ JoinTransport
    /\ L98Body
    /\ ret' = RetLost
    /\ outcome' = "lost"
    /\ mutex' = "free"
    /\ pc' = "idle"
    /\ last' = "ret"
    /\ UNCHANGED << notified, pluginDescription, gotResponse, connectionLost, result,
                    settingsVars, shouldExit, calls, startMode, callWorker, sends, sendOk,
                    callLaunches, waited, enumerated, exitInWait, lostInWait, delivered,
                    callReply, exit90, lossInCall, consumedBy, finPending >>
    /\ UNCHANGED sideVars

\* lines 102-113: decode the stored document, return true
L102 ==
    /\ pc = "L102"
    /\ result' = result \o Decode(pluginDescription)
    /\ consumedBy' = IF pluginDescription # NullXml
                       THEN consumedBy \cup { << pluginDescription.req, calls >> }
                       ELSE consumedBy
    /\ ret' = RetReply
    /\ outcome' = "reply"
    /\ mutex' = "free"
    /\ pc' = "idle"
    /\ last' = "ret"
    /\ UNCHANGED << superprocess, notified, pluginDescription, gotResponse, connectionLost,
                    workerVars, settingsVars, shouldExit, calls, startMode, callWorker,
                    sends, sendOk, callLaunches, waited, enumerated, exitInWait, lostInWait,
                    delivered, callReply, exit90, lossInCall, finPending >>
    /\ UNCHANGED sideVars

\* line 116: superprocess = nullptr
L116Body == DestroySuperprocess

\* fault variant: a failed send falls back to enumerating in the host process
L116WithFallback ==
    /\ pc = "L116"
    /\ JoinTransport
    /\ L116Body
    /\ \E k \in 0..MaxInProc : result' = result \o InProcessTypes(k)
    /\ enumerated' = TRUE
    /\ ret' = TRUE
    /\ outcome' = "sendfail"
    /\ pc' = "idle"
    /\ last' = "ret"
    /\ UNCHANGED << mutex, notified, pluginDescription, gotResponse, connectionLost,
                    settingsVars, shouldExit, calls, startMode, callWorker, sends, sendOk,
                    callLaunches, waited, exitInWait, lostInWait, delivered,
                    callReply, exit90, lossInCall, consumedBy, finPending >>
    /\ UNCHANGED sideVars

\* lines 116-117: the send failed: tear the worker down, return false
L116 ==
    /\ pc = "L116"
    /\ JoinTransport
    /\ L116Body
    /\ ret' = RetSendFail
    /\ outcome' = "sendfail"
    /\ pc' = "idle"
    /\ last' = "ret"
    /\ UNCHANGED << mutex, notified, pluginDescription, gotResponse, connectionLost, result,
                    settingsVars, shouldExit, calls, startMode, callWorker, sends, sendOk,
                    callLaunches, waited, enumerated, exitInWait, lostInWait, delivered,
                    callReply, exit90, lossInCall, consumedBy, finPending >>
    /\ UNCHANGED sideVars

\* ------------------------------------------------ scanFinished
\* line 122: superprocess = nullptr
ScanFinishedBody == DestroySuperprocess

\* lines 120-123, called by the owner of the scan between calls
scanFinished ==
    /\ pc = "idle"
    /\ JoinTransport
    /\ ScanFinishedBody
    /\ finPending' = TRUE
    /\ last' = "fin"
    /\ UNCHANGED << mutex, notified, pluginDescription, gotResponse, connectionLost,
                    pc, result, ret, settingsVars, shouldExit, callHist >>
    /\ UNCHANGED sideVars

\* ------------------------------------------------ the transport thread
\* the worker answers its oldest request; handleMessageFromWorker starts and
\* parses the bytes (line 140)
WorkerReply ==
    /\ superprocess # Null
    /\ wLaunched
    /\ ~wLost
    /\ wQueue # << >>
    /\ tpc = "idle"
    /\ \E raw \in Replies(Head(wQueue)) :
          /\ tmsg' = parseXML(raw)
          /\ callReply' = IF raw.req = calls /\ pc # "idle" THEN raw ELSE callReply
    /\ wQueue' = Tail(wQueue)
    /\ tpc' = "msg"
    /\ last' = "other"
    /\ UNCHANGED << coordVars, pc, result, ret, settingsVars, shouldExit, alive, launches,
                    wLaunched, wLost, calls, startMode, callWorker, sends, sendOk,
                    callLaunches, waited, enumerated, exitInWait, lostInWait, delivered,
                    exit90, lossInCall, outcome, consumedBy, finPending >>
    /\ UNCHANGED sideVars

\* line 142: std::lock_guard lock (owner.mutex)
MsgLock ==
    /\ tpc = "msg"
    /\ mutex = "free"
    /\ mutex' = "transport"
    /\ tpc' = "msgLocked"
    /\ last' = "other"
    /\ UNCHANGED << superprocess, notified, pluginDescription, gotResponse, connectionLost,
                    pc, result, ret, settingsVars, shouldExit, alive, launches, wLaunched,
                    wLost, wQueue, tmsg, callHist, finPending >>
    /\ UNCHANGED sideVars

\* lines 143-146: store the document, set gotResponse, notify, unlock
MsgWrite ==
    /\ tpc = "msgLocked"
    /\ pluginDescription' = tmsg
    /\ gotResponse' = TRUE
    /\ Notify
    /\ mutex' = "free"
    /\ tpc' = "idle"
    /\ tmsg' = NullXml
    /\ delivered' = IF pc \in AfterSend THEN delivered \cup {"reply"} ELSE delivered
    /\ last' = "other"
    /\ UNCHANGED << superprocess, connectionLost, pc, result, ret, settingsVars, shouldExit,
                    alive, launches, wLaunched, wLost, wQueue, calls, startMode, callWorker,
                    sends, sendOk, callLaunches, waited, enumerated, exitInWait, lostInWait,
                    callReply, exit90, lossInCall, outcome, consumedBy, finPending >>
    /\ UNCHANGED sideVars

\* the connection to the live worker breaks; handleConnectionLost starts
ConnectionLostEvent ==
    /\ superprocess # Null
    /\ wLaunched
    /\ ~wLost
    /\ tpc = "idle"
    /\ wLost' = TRUE
    /\ wQueue' = << >>
    /\ tpc' = "lost"
    /\ lossInCall' = (lossInCall \/ pc # "idle")
    /\ last' = "other"
    /\ UNCHANGED << coordVars, pc, result, ret, settingsVars, shouldExit, alive, launches,
                    wLaunched, tmsg, calls, startMode, callWorker, sends, sendOk,
                    callLaunches, waited, enumerated, exitInWait, lostInWait, delivered,
                    callReply, exit90, outcome, consumedBy, finPending >>
    /\ UNCHANGED sideVars

\* fault variant: handleConnectionLost writes without taking the mutex
LostLockMissing ==
    /\ tpc = "lost"
    /\ tpc' = "lostLocked"
    /\ last' = "other"
    /\ UNCHANGED << coordVars, pc, result, ret, settingsVars, shouldExit, alive, launches,
                    wLaunched, wLost, wQueue, tmsg, callHist, finPending >>
    /\ UNCHANGED sideVars

\* line 150: std::lock_guard lock (owner.mutex)
LostLock ==
    /\ tpc = "lost"
    /\ mutex = "free"
    /\ mutex' = "transport"
    /\ tpc' = "lostLocked"
    /\ last' = "other"
    /\ UNCHANGED << superprocess, notified, pluginDescription, gotResponse, connectionLost,
                    pc, result, ret, settingsVars, shouldExit, alive, launches, wLaunched,
                    wLost, wQueue, tmsg, callHist, finPending >>
    /\ UNCHANGED sideVars

\* lines 151-155: clear the document, set gotResponse and connectionLost,
\* notify, unlock
LostWrite ==
    /\ tpc = "lostLocked"
    /\ pluginDescription' = NullXml
    /\ gotResponse' = TRUE
    /\ connectionLost' = TRUE
    /\ Notify
    /\ mutex' = "free"
    /\ tpc' = "idle"
    /\ delivered' = IF pc \in AfterSend THEN delivered \cup {"lost"} ELSE delivered
    /\ lostInWait' = (lostInWait \/ pc = "wait")
    /\ last' = "other"
    /\ UNCHANGED << superprocess, pc, result, ret, settingsVars, shouldExit, alive, launches,
                    wLaunched, wLost, wQueue, tmsg, calls, startMode, callWorker, sends,
                    sendOk, callLaunches, waited, enumerated, exitInWait, callReply, exit90,
                    lossInCall, outcome, consumedBy, finPending >>
    /\ UNCHANGED sideVars

\* ------------------------------------------------ the settings observer
\* lines 204-208: the combo box stores the selected index
SetScanMode ==
    /\ hasSettings
    /\ \E v \in 0..MaxModeIndex : storedMode' = << v >>
    /\ storedMode' # storedMode
    /\ last' = "other"
    /\ UNCHANGED << coordVars, pc, result, ret, scanInProcess, hasSettings, shouldExit,
                    workerVars, callHist, finPending >>
    /\ UNCHANGED sideVars

\* lines 162-166
changeListenerCallback ==
    /\ hasSettings
    /\ scanInProcess' = ScanModeIsInProcess(storedMode)
    /\ scanInProcess' # scanInProcess
    /\ last' = "other"
    /\ UNCHANGED << coordVars, pc, result, ret, storedMode, hasSettings, shouldExit,
                    workerVars, callHist, finPending >>
    /\ UNCHANGED sideVars

\* ------------------------------------------------ the shutdown predicate
\* the host asks the running scan job to stop: shouldExit() turns true and
\* stays true for the rest of the job
ShutdownRequest ==
    /\ ~shouldExit
    /\ shouldExit' = TRUE
    /\ exitInWait' = (exitInWait \/ pc = "wait")
    /\ last' = "other"
    /\ UNCHANGED << coordVars, pc, result, ret, settingsVars, workerVars, calls, startMode,
                    callWorker, sends, sendOk, callLaunches, waited, enumerated, lostInWait,
                    delivered, callReply, exit90, lossInCall, outcome, consumedBy,
                    finPending >>
    /\ UNCHANGED sideVars

\* a later scan runs as a new job, whose shouldExit() starts false
NewJob ==
    /\ pc = "idle"
    /\ shouldExit
    /\ shouldExit' = FALSE
    /\ last' = "other"
    /\ UNCHANGED << coordVars, pc, result, ret, settingsVars, workerVars, callHist,
                    finPending >>
    /\ UNCHANGED sideVars

\* ---------------------------------------------------------------- Next
CallerStep ==
    \/ L56 \/ L57 \/ L61 \/ L65 \/ L66 \/ L74 \/ L76 \/ L77 \/ L82 \/ WakeUp
    \/ L90 \/ L92 \/ L96 \/ L98 \/ L102 \/ L116

TransportStep == MsgLock \/ MsgWrite \/ LostLock \/ LostWrite

Next ==
    \/ FindStart
    \/ CallerStep
    \/ scanFinished
    \/ WorkerReply
    \/ ConnectionLostEvent
    \/ TransportStep
    \/ SetScanMode
    \/ changeListenerCallback
    \/ ShutdownRequest
    \/ NewJob

Spec == Init /\ [][Next]_vars

\* the caller thread and the transport thread keep running; the worker, the
\* settings store and the host's shutdown request are under no obligation
FairSpec == Spec /\ WF_vars(CallerStep) /\ WF_vars(TransportStep)

\* ------------------------------------------- the request (lines 69-74)
\* code points of one, two and three UTF-8 bytes: 'a', e-acute, the euro sign
CodePoints == {97, 233, 8364}

\* juce::String values of at most MaxStrLen code points
Strings == UNION { [1..n -> CodePoints] : n \in 0..MaxStrLen }

\* the UTF-8 encoding of one code point below 2^16
Utf8Bytes(c) ==
    IF c < 128 THEN << c >>
    ELSE IF c < 2048 THEN << 192 + (c \div 64), 128 + (c % 64) >>
    ELSE << 224 + (c \div 4096), 128 + ((c \div 64) % 64), 128 + (c % 64) >>

\* String::toUTF8: the bytes of a string
RECURSIVE toUTF8(_)
toUTF8(text) ==
    IF text = << >> THEN << >> ELSE Utf8Bytes(Head(text)) \o toUTF8(Tail(text))

\* the units a stream is made of: a 32-bit unsigned integer, or one byte
UInt32Unit(n) == [kind |-> "uint32", val |-> n]
ByteUnit(b) == [kind |-> "byte", val |-> b]

\* OutputStream::writeString: the byte count as a uint32 (every count of this
\* model is far below 2^32), then the UTF-8 bytes
writeString(stream, text) ==
    LET bytes == toUTF8(text)
    IN  stream \o << UInt32Unit(Len(bytes)) >> \o [i \in 1..Len(bytes) |-> ByteUnit(bytes[i])]

\* findPluginTypesFor is entered with a format and a string, out-of-process
WireCall ==
    /\ wpc = "idle"
    /\ formatName' \in Strings \ {<< >>}
    /\ fileOrIdentifier' \in Strings
    /\ wireSent' = << >>
    /\ wpc' = "L69"
    /\ UNCHANGED << block, outsideWire >>

\* lines 69-70: MemoryBlock block; MemoryOutputStream stream { block, true }
L69 ==
    /\ wpc = "L69"
    /\ block' = << >>
    /\ wpc' = "L71"
    /\ UNCHANGED << formatName, fileOrIdentifier, wireSent, outsideWire >>

\* fault variant: the file is written where the format name belongs
L71WritesFile ==
    /\ wpc = "L71"
    /\ block' = writeString(block, fileOrIdentifier)
    /\ wpc' = "L72"
    /\ UNCHANGED << formatName, fileOrIdentifier, wireSent, outsideWire >>

\* line 71: stream.writeString (format.getName())
L71 ==
    /\ wpc = "L71"
    /\ block' = writeString(block, formatName)
    /\ wpc' = "L72"
    /\ UNCHANGED << formatName, fileOrIdentifier, wireSent, outsideWire >>

\* line 72: stream.writeString (fileOrIdentifier)
L72 ==
    /\ wpc = "L72"
    /\ block' = writeString(block, fileOrIdentifier)
    /\ wpc' = "L74w"
    /\ UNCHANGED << formatName, fileOrIdentifier, wireSent, outsideWire >>

\* line 74: superprocess->sendMessageToWorker (block); nothing after it in
\* the call writes to the block or sends again, and the block, a local, is
\* gone when the call returns
sendMessageToWorker ==
    /\ wpc = "L74w"
    /\ wireSent' = Append(wireSent, block)
    /\ block' = << >>
    /\ wpc' = "idle"
    /\ UNCHANGED << formatName, fileOrIdentifier, outsideWire >>

\* a scanner in out-of-process mode, about to be called
WireInit ==
    /\ ScannerInit
    /\ hasSettings
    /\ storedMode = << 1 >>
    /\ wpc = "idle"
    /\ formatName = << >>
    /\ fileOrIdentifier = << >>
    /\ block = << >>
    /\ wireSent = << >>
    /\ QuitOff
    /\ FilterOff
    /\ DropOff

WireNext == WireCall \/ L69 \/ L71 \/ L72 \/ sendMessageToWorker

WireSpec == WireInit /\ [][WireNext]_wireVars

\* ------------------------------ tryToQuitApplication (lines 370-438)
\* FileBasedDocument::SaveResult
SaveResults == {"savedOk", "userCancelledSave", "failedToWriteToFile"}

\* lines 410-417: releaseGraph(), JUCEApplication::quit(), run for invocation i
\* after the save step reported r
releaseAndQuit(i, r) ==
    /\ quitBy' = i
    /\ quitResult' = r

\* lines 370-373: the close button calls tryToQuitApplication
closeButtonPressed ==
    /\ qpc = "idle" /\ parentAlive /\ quitBy = 0
    /\ inv < MaxInvocations
    /\ inv' = inv + 1
    /\ qpc' = "L391"
    /\ UNCHANGED << mobile, parentAlive, openWindows, modals, retriers, quitRequested,
                    closedBy, reachedSave, retrierLog, pendingSave, quitBy, quitResult,
                    outsideQuit >>

\* the application answers a quit request by calling tryToQuitApplication on
\* its main window
systemRequestedQuit ==
    /\ qpc = "idle" /\ parentAlive /\ quitBy = 0
    /\ quitRequested > 0
    /\ inv < MaxInvocations
    /\ quitRequested' = quitRequested - 1
    /\ inv' = inv + 1
    /\ qpc' = "L391"
    /\ UNCHANGED << mobile, parentAlive, openWindows, modals, retriers,
                    closedBy, reachedSave, retrierLog, pendingSave, quitBy, quitResult,
                    outsideQuit >>

\* lines 377, 398, 404: new AsyncQuitRetrier() starts a 500 ms timer
AsyncQuitRetrier ==
    /\ retriers' = retriers + 1
    /\ retrierLog' = Append(retrierLog, inv)

\* fault variant: the retry is scheduled but the function does not return
L391FallsThrough ==
    /\ qpc = "L391"
    /\ IF openWindows > 0
         THEN /\ openWindows' = 0
              /\ closedBy' = closedBy \cup {inv}
              /\ AsyncQuitRetrier
              /\ qpc' = "L401"
         ELSE /\ qpc' = "L401"
              /\ UNCHANGED << openWindows, closedBy, retriers, retrierLog >>
    /\ UNCHANGED << mobile, parentAlive, modals, quitRequested, inv, reachedSave,
                    pendingSave, quitBy, quitResult, outsideQuit >>

\* lines 391-400: closeAnyOpenPluginWindows() closes every open plugin window
\* and tells whether there was one; if so, schedule a retry and return
L391 ==
    /\ qpc = "L391"
    /\ IF openWindows > 0
         THEN /\ openWindows' = 0
              /\ closedBy' = closedBy \cup {inv}
              /\ AsyncQuitRetrier
              /\ qpc' = "idle"
         ELSE /\ qpc' = "L401"
              /\ UNCHANGED << openWindows, closedBy, retriers, retrierLog >>
    /\ UNCHANGED << mobile, parentAlive, modals, quitRequested, inv, reachedSave,
                    pendingSave, quitBy, quitResult, outsideQuit >>

\* lines 402-406: cancelAllModalComponents() cancels every modal component
\* and tells whether there was one; if so, schedule a retry and return
L401 ==
    /\ qpc = "L401"
    /\ IF modals > 0
         THEN /\ modals' = 0
              /\ closedBy' = closedBy \cup {inv}
              /\ AsyncQuitRetrier
              /\ qpc' = "idle"
         ELSE /\ qpc' = "L408"
              /\ UNCHANGED << modals, closedBy, retriers, retrierLog >>
    /\ UNCHANGED << mobile, parentAlive, openWindows, quitRequested, inv, reachedSave,
                    pendingSave, quitBy, quitResult, outsideQuit >>

\* lines 408-434: graphHolder is non-null from the constructor (line 304) to
\* the destructor (line 367). Mobile builds save the document and quit when
\* that succeeded (lines 420-421); desktop builds start the asynchronous
\* save-if-needed with a callback (lines 423-431); both return at line 434
L408 ==
    /\ qpc = "L408"
    /\ reachedSave' = reachedSave \cup {inv}
    /\ IF mobile
         THEN /\ \E ok \in BOOLEAN :
                    IF ok THEN releaseAndQuit(inv, "ok")
                          ELSE UNCHANGED << quitBy, quitResult >>
              /\ UNCHANGED pendingSave
         ELSE /\ pendingSave' = pendingSave \cup {inv}
              /\ UNCHANGED << quitBy, quitResult >>
    /\ qpc' = "idle"
    /\ UNCHANGED << mobile, parentAlive, openWindows, modals, retriers, quitRequested,
                    inv, closedBy, retrierLog, outsideQuit >>

\* lines 424-431: the callback of saveIfNeededAndUserAgreesAsync
SaveCallback ==
    /\ qpc = "idle" /\ quitBy = 0
    /\ \E i \in pendingSave, r \in SaveResults :
          /\ pendingSave' = pendingSave \ {i}
          /\ IF parentAlive /\ r = "savedOk"
               THEN releaseAndQuit(i, r)
               ELSE UNCHANGED << quitBy, quitResult >>
    /\ UNCHANGED << qpc, mobile, parentAlive, openWindows, modals, retriers, quitRequested,
                    inv, closedBy, reachedSave, retrierLog, outsideQuit >>

\* lines 379-386: stopTimer(); delete this; app->systemRequestedQuit()
timerCallback ==
    /\ qpc = "idle" /\ quitBy = 0
    /\ retriers > 0
    /\ retriers' = retriers - 1
    /\ quitRequested' = quitRequested + 1
    /\ UNCHANGED << qpc, mobile, parentAlive, openWindows, modals, inv, closedBy,
                    reachedSave, retrierLog, pendingSave, quitBy, quitResult, outsideQuit >>

\* the user opens a plugin window
OpenPluginWindow ==
    /\ qpc = "idle" /\ parentAlive /\ quitBy = 0
    /\ openWindows < MaxWindows
    /\ openWindows' = openWindows + 1
    /\ UNCHANGED << qpc, mobile, parentAlive, modals, retriers, quitRequested, inv,
                    closedBy, reachedSave, retrierLog, pendingSave, quitBy, quitResult,
                    outsideQuit >>

\* a modal component is shown
ShowModal ==
    /\ qpc = "idle" /\ parentAlive /\ quitBy = 0
    /\ modals < MaxModals
    /\ modals' = modals + 1
    /\ UNCHANGED << qpc, mobile, parentAlive, openWindows, retriers, quitRequested, inv,
                    closedBy, reachedSave, retrierLog, pendingSave, quitBy, quitResult,
                    outsideQuit >>

\* lines 356-368: ~MainHostWindow, with callbacks possibly still pending
DestroyWindow ==
    /\ qpc = "idle" /\ parentAlive /\ quitBy = 0
    /\ parentAlive' = FALSE
    /\ UNCHANGED << qpc, mobile, openWindows, modals, retriers, quitRequested, inv,
                    closedBy, reachedSave, retrierLog, pendingSave, quitBy, quitResult,
                    outsideQuit >>

\* the main window after its constructor, on either kind of build
QuitInit ==
    /\ ScannerInit
    /\ hasSettings
    /\ storedMode = << >>
    /\ WireOff
    /\ qpc = "idle"
    /\ mobile \in BOOLEAN
    /\ parentAlive = TRUE
    /\ openWindows \in 0..MaxWindows
    /\ modals \in 0..MaxModals
    /\ retriers = 0
    /\ quitRequested = 0
    /\ inv = 0
    /\ closedBy = {}
    /\ reachedSave = {}
    /\ retrierLog = << >>
    /\ pendingSave = {}
    /\ quitBy = 0
    /\ quitResult = "none"
    /\ FilterOff
    /\ DropOff

QuitNext ==
    \/ closeButtonPressed
    \/ systemRequestedQuit
    \/ L391
    \/ L401
    \/ L408
    \/ SaveCallback
    \/ timerCallback
    \/ OpenPluginWindow
    \/ ShowModal
    \/ DestroyWindow

QuitSpec == QuitInit /\ [][QuitNext]_quitVars

\* -------------- createPluginFilterOfType (juce_CreatePluginFilter.h)
\* AudioProcessor::WrapperType: the undefined type and some plugin formats
WrapperTypes == {"wrapperType_Undefined", "wrapperType_VST3", "wrapperType_AudioUnit",
                 "wrapperType_Standalone"}

\* the AudioProcessor constructor gives the new instance the type of the next
\* new plugin as its wrapperType
AudioProcessor == typeOfNextNewPlugin

\* part_001 lines 28-31: return new JuceDemoPluginAudioProcessor(), whatever
\* type and pData are; new yields an object
createPluginFilter(t, pData) == AudioProcessor

\* line 38: a wrapper calls createPluginFilterOfType (type, pData)
createPluginFilterOfType ==
    /\ fpc = "idle"
    /\ Len(created) < MaxCreates
    /\ type' \in WrapperTypes
    /\ pluginInstance' = "nullptr"
    /\ fpc' = "L41"
    /\ UNCHANGED << typeOfNextNewPlugin, assertFailed, created, outsideFilter >>

\* fault variant: the type of the next new plugin is not set
L41Skipped ==
    /\ fpc = "L41"
    /\ fpc' = "L43"
    /\ UNCHANGED << type, typeOfNextNewPlugin, pluginInstance, assertFailed, created,
                    outsideFilter >>

\* line 41: AudioProcessor::setTypeOfNextNewPlugin (type)
L41 ==
    /\ fpc = "L41"
    /\ typeOfNextNewPlugin' = type
    /\ fpc' = "L43"
    /\ UNCHANGED << type, pluginInstance, assertFailed, created, outsideFilter >>

\* line 43: pluginInstance = ::createPluginFilter (type, pData)
L43 ==
    /\ fpc = "L43"
    /\ \E pData \in BOOLEAN : pluginInstance' = createPluginFilter(type, pData)
    /\ fpc' = "L44"
    /\ UNCHANGED << type, typeOfNextNewPlugin, assertFailed, created, outsideFilter >>

\* line 44: AudioProcessor::setTypeOfNextNewPlugin (wrapperType_Undefined)
L44 ==
    /\ fpc = "L44"
    /\ typeOfNextNewPlugin' = "wrapperType_Undefined"
    /\ fpc' = "L47"
    /\ UNCHANGED << type, pluginInstance, assertFailed, created, outsideFilter >>

\* lines 47-53: jassert (pluginInstance != nullptr
\*                       && pluginInstance->wrapperType == type); return it
L47 ==
    /\ fpc = "L47"
    /\ assertFailed' = (assertFailed \/ ~(pluginInstance # "nullptr" /\ pluginInstance = type))
    /\ created' = Append(created, pluginInstance)
    /\ fpc' = "idle"
    /\ UNCHANGED << type, typeOfNextNewPlugin, pluginInstance, outsideFilter >>

\* a plugin wrapper before its first instance
FilterInit ==
    /\ ScannerInit
    /\ hasSettings
    /\ storedMode = << >>
    /\ WireOff
    /\ QuitOff
    /\ fpc = "idle"
    /\ type = "wrapperType_Undefined"
    /\ typeOfNextNewPlugin = "wrapperType_Undefined"
    /\ pluginInstance = "nullptr"
    /\ assertFailed = FALSE
    /\ created = << >>
    /\ DropOff

FilterNext == createPluginFilterOfType \/ L41 \/ L43 \/ L44 \/ L47

FilterSpec == FilterInit /\ [][FilterNext]_filterVars

\* ------------------------------------- filesDropped (lines 888-923)
\* PluginGraph::getFilenameSuffix()
getFilenameSuffix == ".filtergraph"

\* the files a user may drop: a saved graph and a plugin binary
DroppableFiles == { [stem |-> "session", ext |-> ".filtergraph"],
                    [stem |-> "synth", ext |-> ".vst3"] }

FileLists == UNION { [1..n -> DroppableFiles] : n \in 0..MaxFiles }

\* File::hasFileExtension
hasFileExtension(file, suffix) == file.ext = suffix

\* line 893: File firstFile { files[0] }; StringArray::operator[] gives an
\* empty string for an index out of range
firstFile == IF files = << >> THEN [stem |-> "", ext |-> ""] ELSE files[1]

\* line 888: some files are dropped on the window
filesDropped ==
    /\ dpc = "idle"
    /\ Len(dropLog) < MaxDrops
    /\ files' \in FileLists
    /\ dropLog' = Append(dropLog, files')
    /\ dpc' = "L890"
    /\ UNCHANGED << desktop, graphHolder, graph, pendingLoad, reported, loaded, scanned,
                    outsideDrop >>

\* lines 890-892: nothing happens without a graphHolder; mobile builds have
\* only the scanning block
L890 ==
    /\ dpc = "L890"
    /\ dpc' = IF ~graphHolder THEN "idle" ELSE IF desktop THEN "L895" ELSE "L913"
    /\ UNCHANGED << desktop, graphHolder, graph, files, dropLog, pendingLoad, reported,
                    loaded, scanned, outsideDrop >>

\* line 895: exactly one file, with the graph suffix
L895 ==
    /\ dpc = "L895"
    /\ dpc' = IF Len(files) = 1 /\ hasFileExtension(firstFile, getFilenameSuffix)
                THEN "L897" ELSE "L913"
    /\ UNCHANGED << desktop, graphHolder, graph, files, dropLog, pendingLoad, reported,
                    loaded, scanned, outsideDrop >>

\* line 899: SafePointer<MainHostWindow> parent; default-constructed, it
\* points to no window
SafePointerParent == "nullptr"

\* lines 897-908: with a graph, start the asynchronous save-if-needed with a
\* callback that captures parent, g and firstFile
L897 ==
    /\ dpc = "L897"
    /\ IF graph
         THEN pendingLoad' = pendingLoad \cup
                  { [drop |-> Len(dropLog), parent |-> SafePointerParent, file |-> firstFile] }
         ELSE UNCHANGED pendingLoad
    /\ dpc' = "idle"
    /\ UNCHANGED << desktop, graphHolder, graph, files, dropLog, reported, loaded, scanned,
                    outsideDrop >>

\* lines 901-907: the callback returns when parent is null, and otherwise
\* loads the file when the result is savedOk
DropSaveCallback ==
    /\ dpc = "idle"
    /\ \E cb \in pendingLoad, r \in SaveResults :
          /\ pendingLoad' = pendingLoad \ {cb}
          /\ reported' = reported \cup { << cb.drop, r >> }
          /\ IF cb.parent # "nullptr" /\ r = "savedOk"
               THEN loaded' = loaded \cup { << cb.drop, cb.file >> }
               ELSE UNCHANGED loaded
    /\ UNCHANGED << dpc, desktop, graphHolder, graph, files, dropLog, scanned, outsideDrop >>

\* lines 913-920: the files are scanned as plugins (and up to five of the
\* types found are added to the graph)
L913 ==
    /\ dpc = "L913"
    /\ scanned' = scanned \cup { << Len(dropLog), files[i] >> : i \in 1..Len(files) }
    /\ dpc' = "idle"
    /\ UNCHANGED << desktop, graphHolder, graph, files, dropLog, pendingLoad, reported,
                    loaded, outsideDrop >>

\* the main window, on either kind of build, with or without a graph
DropInit ==
    /\ ScannerInit
    /\ hasSettings
    /\ storedMode = << >>
    /\ WireOff
    /\ QuitOff
    /\ FilterOff
    /\ dpc = "idle"
    /\ desktop \in BOOLEAN
    /\ graphHolder \in BOOLEAN
    /\ graph \in BOOLEAN
    /\ graph => graphHolder
    /\ files = << >>
    /\ dropLog = << >>
    /\ pendingLoad = {}
    /\ reported = {}
    /\ loaded = {}
    /\ scanned = {}

DropNext == filesDropped \/ L890 \/ L895 \/ L897 \/ DropSaveCallback \/ L913

DropSpec == DropInit /\ [][DropNext]_dropVars

\* ================================================================ claims

\* C1 (mode fidelity): every call runs the path selected by the value
\* scanInProcess had when the call started. While the call is on the
\* in-process lines the start value was InProcess, while it is on the
\* out-of-process lines (the wait included) it was OutOfProcess whatever the
\* flag has become since, and it returns through the in-process return exactly
\* when it started in-process.
C1_ModeFidelity ==
    /\ pc \in InProcPcs => startMode
    /\ pc \in OutProcPcs => ~startMode
    /\ last = "ret" => (startMode <=> outcome = "inproc")
    /\ last = "ret" /\ ~startMode => outcome \in {"reply", "lost", "shutdown", "sendfail"}

\* a call started out-of-process, the flag flipped to in-process while it
\* waited, and it still returned through the worker's reply
C1_Witness ==
    /\ last = "ret"
    /\ ~startMode
    /\ scanInProcess
    /\ waited
    /\ outcome = "reply"

\* C2 (single worker): at most one Superprocess exists, it is the one the
\* coordinator holds, and a worker is launched only in a state where the
\* coordinator holds none.
C2_SingleWorker ==
    /\ [](/\ Cardinality(alive) <= 1
          /\ alive = (IF superprocess = Null THEN {} ELSE {superprocess}))
    /\ [][launches' # launches => superprocess = Null /\ alive = {}]_vars

\* a second worker is alive after the first one was torn down
C2_Witness == launches = 2 /\ alive = {2} /\ superprocess = 2

\* C3 (no replay): a reply is decoded only by the call whose request it
\* answers, so by at most one call, and the descriptors a call returns come
\* only from the reply to its own request (or from its in-process enumeration).
C3_NoReplay ==
    /\ \A p \in consumedBy : p[1] = p[2]
    /\ \A i \in 1..Len(result) : result[i][1] \in {0, calls}

\* two successive calls on the same worker have each decoded their own reply
C3_Witness ==
    /\ launches = 1
    /\ { << 1, 1 >>, << 2, 2 >> } \subseteq consumedBy
    /\ last = "ret"
    /\ result # << >>

C5_Original ==
    last = "ret" /\ lostInWait => ret = FALSE /\ superprocess = Null /\ alive = {}

\* C5 (connection loss), amended: a connection loss reported while the call is
\* blocked waiting makes the call release the worker and return false, unless
\* shouldExit() is true when line 90 checks it, in which case the call returns
\* true.
C5_ConnectionLoss ==
    last = "ret" /\ lostInWait
        => /\ superprocess = Null
           /\ alive = {}
           /\ ret = (IF exit90 THEN TRUE ELSE FALSE)

\* the connection was lost during the wait and the call returned false
C5_Witness ==
    /\ last = "ret"
    /\ lostInWait
    /\ ~exit90
    /\ ret = FALSE
    /\ outcome = "lost"

\* C6 (wake-up liveness) as the claim states it: once the send has succeeded,
\* a reply or connection-lost callback that runs before the call returns is
\* never lost: gotResponse stays true until the call has left the wait, so the
\* call returns without any shutdown.
C6_NoEventLost ==
    pc \in {"L76", "L77", "L82", "wait"} /\ delivered # {} => gotResponse

\* C7 (successful out-of-process scan): a call that started out-of-process,
\* sent its request and returned with no shutdown and no connection loss
\* returns true, a reply of N well-formed records gives exactly N descriptors
\* in order, the worker that served it is still alive, and a call that found a
\* worker at its start launches none and uses that worker.
C7_SuccessfulScan ==
    /\ last = "ret" /\ ~startMode /\ sendOk /\ ~shouldExit /\ ~lossInCall
         => /\ ret = TRUE
            /\ callReply.req = calls
            /\ (callReply.wellFormed /\ \A i \in DOMAIN callReply.items : callReply.items[i])
                 => result = [i \in 1..Len(callReply.items) |-> << calls, i >>]
            /\ superprocess # Null
            /\ alive = {superprocess}
            /\ callWorker # Null => superprocess = callWorker
    /\ pc \in (OutProcPcs \ {"L61"}) /\ callWorker # Null
         => callLaunches = 0 /\ superprocess \in {callWorker, Null}

\* a second call reused the worker of the first and returned the two
\* descriptors of a reply of two well-formed records
C7_Witness ==
    /\ last = "ret"
    /\ outcome = "reply"
    /\ ~shouldExit
    /\ ~lossInCall
    /\ callReply.wellFormed
    /\ callReply.items = << TRUE, TRUE >>
    /\ Len(result) = 2
    /\ callWorker # Null
    /\ superprocess = callWorker

\* C8 (send or launch failure): an out-of-process call whose
\* sendMessageToWorker returned false returns false, never waited, added no
\* descriptor and leaves no worker.
C8_SendFailure ==
    last = "ret" /\ ~startMode /\ ~sendOk
        => /\ ret = FALSE
           /\ sends = 1
           /\ ~waited
           /\ result = << >>
           /\ superprocess = Null
           /\ alive = {}

\* a call launched a worker, the send failed, and the call has returned
C8_Witness ==
    /\ last = "ret"
    /\ outcome = "sendfail"
    /\ callLaunches = 1
    /\ ~lossInCall
    /\ ret = FALSE

\* C9 (in-process scan): a call that started in-process launches no worker,
\* sends nothing and never waits; when it returns it has discarded any worker,
\* has run the format's enumeration, whose descriptors are the result, and
\* returns true.
C9_InProcessScan ==
    /\ startMode /\ calls > 0
         => callLaunches = 0 /\ sends = 0 /\ ~waited
    /\ last = "ret" /\ startMode
         => /\ ret = TRUE
            /\ enumerated
            /\ superprocess = Null
            /\ alive = {}
            /\ \A i \in 1..Len(result) : result[i][1] = 0

\* an in-process call found a live worker, discarded it and returned true with
\* zero descriptors
C9_Witness ==
    /\ last = "ret"
    /\ startMode
    /\ callWorker # Null
    /\ result = << >>
    /\ ret = TRUE

\* C10 (scanFinished): after scanFinished no worker exists, none appears until
\* a call launches one, and an out-of-process call that starts without a
\* worker launches a fresh one.
C10_ScanFinished ==
    /\ last = "fin" => superprocess = Null /\ alive = {}
    /\ finPending => superprocess = Null /\ alive = {}
    /\ pc \in (OutProcPcs \ {"L61"}) /\ callWorker = Null
         => /\ callLaunches = 1
            /\ ~finPending
            /\ superprocess \in {Null, launches}

\* scanFinished ran after a call that had left its worker alive, and tore it down
C10_Witness ==
    /\ last = "fin"
    /\ outcome = "reply"
    /\ launches >= 1
    /\ superprocess = Null

\* C11 (malformed reply): an out-of-process call whose request was answered
\* with empty or unparsable bytes, and that returns with no shutdown and no
\* connection loss, returns true, adds no descriptor and keeps its worker.
C11_MalformedReply ==
    last = "ret" /\ ~startMode /\ sendOk /\ ~shouldExit /\ ~lossInCall
      /\ callReply.req = calls /\ ~callReply.wellFormed
        => /\ ret = TRUE
           /\ result = << >>
           /\ superprocess # Null
           /\ alive = {superprocess}

\* the worker answered with bytes that do not parse; the call returned true
\* with an empty result and the worker is still held
C11_Witness ==
    /\ last = "ret"
    /\ outcome = "reply"
    /\ callReply.req = calls
    /\ ~callReply.wellFormed
    /\ pluginDescription = NullXml
    /\ ret = TRUE
    /\ result = << >>
    /\ superprocess # Null

\* C12 (malformed entry skipping): for a parsable reply, the descriptors of a
\* call that returns with no shutdown and no connection loss are exactly the
\* records that load, each once and in document order, and the call returns
\* true.
C12_EntrySkipping ==
    last = "ret" /\ ~startMode /\ sendOk /\ ~shouldExit /\ ~lossInCall
      /\ callReply.req = calls /\ callReply.wellFormed
        => /\ ret = TRUE
           /\ \A i \in 1..Len(result) :
                 /\ result[i][1] = calls
                 /\ result[i][2] \in DOMAIN callReply.items
                 /\ callReply.items[result[i][2]]
           /\ \A i, j \in 1..Len(result) : i < j => result[i][2] < result[j][2]
           /\ \A k \in DOMAIN callReply.items :
                 callReply.items[k] => \E i \in 1..Len(result) : result[i][2] = k

\* the first record failed to load and the second one was still added
C12_Witness ==
    /\ last = "ret"
    /\ outcome = "reply"
    /\ callReply.req = calls
    /\ callReply.wellFormed
    /\ callReply.items = << FALSE, TRUE >>
    /\ result = << << calls, 2 >> >>
    /\ ret = TRUE

\* the lines at which the caller thread reads or writes gotResponse,
\* connectionLost or pluginDescription, and the transport thread's positions
\* inside its two critical sections
CallerAccess == {"L66", "L77", "L82", "L96", "L102"}
TransportAccess == {"msgLocked", "lostLocked"}

\* C13 (mutual exclusion): a thread that is at an access to gotResponse,
\* connectionLost or pluginDescription holds the mutex, the two threads are
\* never at such an access together, and every step that changes one of the
\* three is taken by the thread that holds the mutex.
C13_MutualExclusion ==
    /\ [](/\ pc \in CallerAccess => mutex = "caller"
          /\ tpc \in TransportAccess => mutex = "transport"
          /\ ~(pc \in CallerAccess /\ tpc \in TransportAccess))
    /\ [][<< gotResponse, connectionLost, pluginDescription >>'
             # << gotResponse, connectionLost, pluginDescription >>
           => \/ mutex = "caller" /\ pc \in CallerAccess /\ pc' # pc /\ tpc' = tpc
              \/ mutex = "transport" /\ tpc \in TransportAccess /\ tpc' = "idle" /\ pc' = pc]_vars

\* the transport thread is inside handleMessageFromWorker's critical section
\* while the caller, past its send, has still to take the mutex
C13_Witness ==
    /\ pc = "L76"
    /\ tpc = "msgLocked"
    /\ mutex = "transport"

\* C14 (no per-scan timeout): after a successful send the call returns only
\* once a callback of the transport thread has run during the call or
\* shouldExit() is true; the wait is left only with gotResponse or
\* shouldExit() true, so a wake-up by the 50 ms timeout alone puts the caller
\* back to sleep, and while nothing was delivered and no shutdown is requested
\* the call is still inside the wait.
C14_NoScanTimeout ==
    /\ [](last = "ret" /\ ~startMode /\ sendOk => delivered # {} \/ shouldExit)
    /\ [](waited /\ pc # "idle" /\ delivered = {} /\ ~shouldExit
            => pc \in {"L82", "wait"} /\ ~gotResponse)
    /\ [][pc = "L82" /\ pc' # pc /\ ~gotResponse /\ ~shouldExit
            => pc' = "wait"]_vars

\* the caller slept, was woken by the timeout with nothing delivered and no
\* shutdown requested, and is about to evaluate the predicate again
C14_Witness ==
    /\ pc = "L82"
    /\ waited
    /\ delivered = {}
    /\ ~gotResponse
    /\ ~shouldExit
    /\ ~wLost
    /\ wQueue = << calls >>

C16_LazyLifecycle ==
    /\ [](/\ calls = 0 => launches = 0 /\ superprocess = Null
          /\ pc \in (OutProcPcs \ {"L61"}) /\ callWorker = Null => callLaunches = 1
          /\ pc \in {"L65", "L66"} => callLaunches = 1 /\ superprocess = launches
          /\ startMode /\ calls > 0 => callLaunches = 0)
    /\ [][launches' # launches
            => /\ pc = "L61" /\ ~startMode /\ superprocess = Null
               /\ launches' = launches + 1
               /\ pc' = "L65"]_vars
    /\ [][superprocess' # superprocess
            => \/ superprocess = Null /\ superprocess' = launches + 1 /\ launches' = launches + 1
               \/ superprocess' = Null]_vars
    /\ [][pc = "L66" /\ pc' # pc => pc' = "L74" /\ connectionLost' = FALSE]_vars

\* the first worker's connection was lost, its call returned false, and the
\* next out-of-process call has launched a second worker and cleared the flag
C16_Witness ==
    /\ pc = "L74"
    /\ calls = 2
    /\ launches = 2
    /\ callLaunches = 1
    /\ superprocess = 2
    /\ gotResponse
    /\ pluginDescription = NullXml
    /\ ~connectionLost

\* C17 (mode observer): after construction the scanInProcess flag equals
\* (stored pluginScanMode == 0) when a settings store exists and is true
\* (InProcess) when none exists; every change notification leaves the flag
\* equal to (stored value == 0), a stored 0 or a missing key giving InProcess
\* and any other value OutOfProcess; only a change notification changes the
\* flag; and without a settings store the flag never leaves its initial value.
C17_ModeObserver ==
    /\ scanInProcess = (IF hasSettings THEN storedMode \in {<< >>, << 0 >>} ELSE TRUE)
    /\ [](~hasSettings => scanInProcess)
    /\ [][changeListenerCallback
            => /\ hasSettings
               /\ scanInProcess' = (getIntValue(storedMode) = 0)
               /\ scanInProcess' = (storedMode \in {<< >>, << 0 >>})]_vars
    /\ [][scanInProcess' # scanInProcess
            => changeListenerCallback /\ UNCHANGED storedMode]_vars

\* a call started out-of-process is waiting; meanwhile the stored mode went
\* back to 0 and the notification has set the flag to InProcess
C17_Witness ==
    /\ pc = "wait"
    /\ ~startMode
    /\ hasSettings
    /\ storedMode = << 0 >>
    /\ scanInProcess

\* C18 (no in-process fallback): a call that read OutOfProcess at its start
\* never reaches the in-process branch and never invokes the format's
\* enumeration in the host, whatever the flag becomes during the call and
\* whatever the outcome; every descriptor it returns came from a worker; and
\* a send failure or a connection loss shows only as the return value false
\* with no descriptor added.
C18_NoInProcessFallback ==
    /\ ~startMode /\ calls > 0
         => /\ ~enumerated
            /\ pc \notin InProcPcs
            /\ \A i \in 1..Len(result) : result[i][1] # 0
    /\ last = "ret" /\ ~startMode
         => /\ outcome \in {"reply", "sendfail", "lost", "shutdown"}
            /\ outcome \in {"sendfail", "lost"} => ret = FALSE /\ result = << >>
            /\ outcome = "shutdown" => result = << >>

\* the flag went back to InProcess while an out-of-process call was running,
\* the worker was lost, and the call returned false without enumerating
C18_Witness ==
    /\ last = "ret"
    /\ ~startMode
    /\ scanInProcess
    /\ outcome = "lost"
    /\ ~enumerated
    /\ ret = FALSE
    /\ result = << >>

\* C19 (request wire format): every block an out-of-process call sends reads
\* back as exactly two fields, each a uint32 byte count followed by that many
\* bytes, with no unit before, between or after them; the first field is the
\* UTF-8 encoding of the format name and the second that of the
\* file-or-identifier; and a call that has finished building has sent exactly
\* one block.
RECURSIVE ReadFields(_, _)
ReadFields(units, acc) ==
    IF units = << >> THEN [ok |-> TRUE, fields |-> acc]
    ELSE IF units[1].kind # "uint32" \/ units[1].val > Len(units) - 1
         THEN [ok |-> FALSE, fields |-> acc]
    ELSE LET n == units[1].val
         IN  IF \E i \in 2..(n + 1) : units[i].kind # "byte" \/ units[i].val \notin 0..255
             THEN [ok |-> FALSE, fields |-> acc]
             ELSE ReadFields(SubSeq(units, n + 2, Len(units)),
                             Append(acc, [i \in 1..n |-> units[i + 1].val]))

\* the code points a well-formed UTF-8 byte sequence stands for; -1 marks bytes
\* that are not UTF-8
RECURSIVE fromUTF8(_)
fromUTF8(bytes) ==
    IF bytes = << >> THEN << >>
    ELSE IF bytes[1] < 128 THEN << bytes[1] >> \o fromUTF8(Tail(bytes))
    ELSE IF bytes[1] \in 192..223 /\ Len(bytes) >= 2 /\ bytes[2] \in 128..191
         THEN << (bytes[1] - 192) * 64 + (bytes[2] - 128) >>
                  \o fromUTF8(SubSeq(bytes, 3, Len(bytes)))
    ELSE IF /\ bytes[1] \in 224..239 /\ Len(bytes) >= 3
            /\ bytes[2] \in 128..191 /\ bytes[3] \in 128..191
         THEN << (bytes[1] - 224) * 4096 + (bytes[2] - 128) * 64 + (bytes[3] - 128) >>
                  \o fromUTF8(SubSeq(bytes, 4, Len(bytes)))
    ELSE << -1 >>

C19_RequestWireFormat ==
    /\ \A k \in 1..Len(wireSent) :
          LET read == ReadFields(wireSent[k], << >>)
          IN  /\ read.ok
              /\ Len(read.fields) = 2
              /\ fromUTF8(read.fields[1]) = formatName
              /\ fromUTF8(read.fields[2]) = fileOrIdentifier
              /\ wireSent[k][1] = UInt32Unit(Len(read.fields[1]))
              /\ Len(wireSent[k]) = 2 + Len(read.fields[1]) + Len(read.fields[2])
    /\ wpc = "idle" /\ formatName # << >> => Len(wireSent) = 1
    /\ wpc \in {"L69", "L71", "L72", "L74w"} => wireSent = << >>

\* a call for file "a" + e-acute has sent its block: two characters, three
\* bytes, so the second count is 3 and the block holds 2 + 1 + 3 units
C19_Witness ==
    /\ wpc = "idle"
    /\ formatName = << 8364 >>
    /\ fileOrIdentifier = << 97, 233 >>
    /\ Len(wireSent) = 1
    /\ wireSent[1] = << UInt32Unit(3), ByteUnit(226), ByteUnit(130), ByteUnit(172),
                        UInt32Unit(3), ByteUnit(97), ByteUnit(195), ByteUnit(169) >>

\* C20 (outcome precedence): a call that leaves the wait checks the shutdown
\* predicate at line 90 before anything else, connectionLost at line 96 only
\* when shutdown was false, and decodes the reply only when both were false.
\* So with shutdown true at line 90 the call returns true with no descriptor
\* and the worker torn down, whatever reply is stored and whether or not the
\* connection was lost; with shutdown false and connectionLost true it returns
\* false; otherwise it returns the decoded reply.
C20_OutcomePrecedence ==
    /\ [](last = "ret" /\ ~startMode /\ sendOk
            => /\ exit90
                 => /\ outcome = "shutdown" /\ ret = TRUE /\ result = << >>
                    /\ superprocess = Null /\ alive = {}
               /\ ~exit90 /\ connectionLost
                 => /\ outcome = "lost" /\ ret = FALSE /\ result = << >>
                    /\ superprocess = Null
               /\ ~exit90 /\ ~connectionLost
                 => outcome = "reply" /\ ret = TRUE /\ result = Decode(pluginDescription))
    /\ [][pc = "L82" /\ pc' # pc => pc' \in {"wait", "L90"}]_vars
    /\ [][pc = "L90" /\ pc' # pc
            => /\ exit90' = shouldExit
               /\ pc' = (IF shouldExit THEN "L92" ELSE "L96")]_vars
    /\ [][pc = "L96" /\ pc' # pc
            => ~exit90 /\ pc' = (IF connectionLost THEN "L98" ELSE "L102")]_vars
    /\ [][pc' \in {"L98", "L102"} /\ pc' # pc => pc = "L96"]_vars

\* shutdown was true at line 90 while a reply with descriptors, delivered
\* during the wait, was stored: the call returned true with nothing
C20_Witness ==
    /\ last = "ret"
    /\ exit90
    /\ outcome = "shutdown"
    /\ waited
    /\ "reply" \in delivered
    /\ gotResponse
    /\ pluginDescription # NullXml
    /\ Len(pluginDescription.items) > 0
    /\ ~connectionLost
    /\ ret = TRUE
    /\ result = << >>

\* C21 (no stale connection-lost flag) as the claim states it: a call that
\* returns false after a successful send had a connection-loss callback for
\* its worker run during the call, after the send; and connectionLost is false
\* at the moment the call starts waiting, that is when lines 77-78 have reset
\* the monitor and the wait loop is entered.
C21_NoStaleFlag ==
    /\ [](last = "ret" /\ ~startMode /\ sendOk /\ ret = FALSE => "lost" \in delivered)
    /\ [][pc = "L77" /\ pc' = "L82" => connectionLost' = FALSE]_vars

\* C22 (deadlock freedom of teardown) as the claim states it: the caller,
\* holding the mutex at line 92 or 98 and destroying the worker handle, whose
\* destructor stops the transport thread, never coexists with that thread
\* blocked on the mutex at line 142 of handleMessageFromWorker or line 150 of
\* handleConnectionLost.
C22_TeardownDeadlockFree ==
    ~(/\ pc \in {"L92", "L98"}
      /\ mutex = "caller"
      /\ superprocess # Null
      /\ tpc \in {"msg", "lost"})

\* C23 (at most one outstanding request): a live worker never holds more than
\* one request that was sent and not answered. At every successful send the
\* worker holds no unanswered request and no reply of it is still on the
\* transport thread, because a call returns keeping the worker only through
\* line 102, after the reply to its own request was delivered during the call
\* and with nothing left outstanding, and every other return after a send
\* discards the worker.
C23_OneOutstandingRequest ==
    /\ [](/\ Len(wQueue) <= 1
          /\ wQueue # << >> => tpc \in {"idle", "lost", "lostLocked"} /\ superprocess # Null
          /\ pc = "idle" => wQueue = << >>)
    /\ [][Len(wQueue') > Len(wQueue)
            => /\ pc = "L74" /\ sendOk'
               /\ wQueue = << >> /\ wQueue' = << calls >>
               /\ tpc = "idle"]_vars
    /\ [][pc = "L102" /\ pc' = "idle"
            => /\ "reply" \in delivered
               /\ callReply.req = calls
               /\ wQueue' = << >> /\ tpc' \notin {"msg", "msgLocked"}]_vars
    /\ [][pc' = "idle" /\ pc \in (AfterSend \ {"L102"}) => superprocess' = Null]_vars

\* the second call has sent its request to the worker the first call launched,
\* whose reply to the first request the first call consumed
C23_Witness ==
    /\ pc = "L76"
    /\ calls = 2
    /\ callLaunches = 0
    /\ superprocess = 1
    /\ wQueue = << 2 >>
    /\ << 1, 1 >> \in consumedBy

\* C24 (failure postcondition): a call returns false only from the
\* connection-lost return (line 99) or the send-failure return (line 117);
\* right after every return of false, and right after the shutdown return,
\* which returns true, the scanner holds no worker handle, no worker object
\* exists, and the call has added no descriptor to the caller's collection.
C24_FailurePostcondition ==
    /\ last = "ret" /\ ret = FALSE
         => /\ outcome \in {"lost", "sendfail"}
            /\ superprocess = Null
            /\ alive = {}
            /\ result = << >>
    /\ last = "ret" /\ outcome = "shutdown"
         => /\ ret = TRUE
            /\ superprocess = Null
            /\ alive = {}
            /\ result = << >>
    /\ last = "ret" /\ outcome \in {"lost", "sendfail"} => ret = FALSE

\* the second call reused the first call's worker, lost it while waiting and
\* returned false with the handle released and nothing added
C24_Witness ==
    /\ last = "ret"
    /\ calls = 2
    /\ callLaunches = 0
    /\ callWorker = 1
    /\ outcome = "lost"
    /\ ret = FALSE
    /\ superprocess = Null
    /\ result = << >>

\* C25 (deferred quit): an invocation of tryToQuitApplication that closed a
\* plugin window or cancelled a modal component never reaches the save step,
\* never has a save callback and is never the invocation that quits; it has
\* created exactly one AsyncQuitRetrier, and an invocation that closed nothing
\* has created none; a retrier fires once and re-requests quit. The
\* application quits only for an invocation that found no window and no modal
\* component and whose save step reported success (savedOk on desktop).
RetriersOf(i) == Cardinality({ k \in 1..Len(retrierLog) : retrierLog[k] = i })

C25_DeferredQuit ==
    /\ [](\A i \in closedBy :
             /\ i \notin reachedSave
             /\ i \notin pendingSave
             /\ quitBy # i)
    /\ [](\A i \in 1..inv : RetriersOf(i) = (IF i \in closedBy THEN 1 ELSE 0))
    /\ [](quitBy # 0
            => /\ quitBy \in reachedSave
               /\ quitBy \notin closedBy
               /\ quitResult = (IF mobile THEN "ok" ELSE "savedOk"))
    /\ [][qpc = "L391" /\ qpc' # qpc
            => IF openWindows > 0
                 THEN qpc' = "idle" /\ retriers' = retriers + 1 /\ UNCHANGED quitBy
                 ELSE qpc' = "L401" /\ UNCHANGED retriers]_quitVars
    /\ [][qpc = "L401" /\ qpc' # qpc
            => IF modals > 0
                 THEN qpc' = "idle" /\ retriers' = retriers + 1 /\ UNCHANGED quitBy
                 ELSE qpc' = "L408" /\ UNCHANGED retriers]_quitVars
    /\ [][retriers' < retriers
            => retriers' = retriers - 1 /\ quitRequested' = quitRequested + 1]_quitVars
    /\ [][quitBy' # quitBy
            => /\ quitBy = 0
               /\ (qpc = "L408" /\ mobile /\ openWindows = 0 /\ modals = 0) \/ quitBy' \in pendingSave
               /\ parentAlive]_quitVars

\* the first invocation closed a plugin window and retried; the retry found
\* nothing to close, the save reported savedOk and the application quit
C25_Witness ==
    /\ ~mobile
    /\ closedBy = {1}
    /\ retrierLog = << 1 >>
    /\ retriers = 0
    /\ quitRequested = 0
    /\ quitBy = 2
    /\ quitResult = "savedOk"

\* C26 (createPluginFilterOfType): when createPluginFilter runs, the type of
\* the next new plugin is the requested type, for every type; outside lines
\* 43-44 it is wrapperType_Undefined, so it is reset once createPluginFilter
\* has returned; and the condition asserted at line 47 is true: the instance
\* is not null and its wrapperType is the requested type.
C26_CreatePluginFilterOfType ==
    /\ [](fpc \in {"L43"} => typeOfNextNewPlugin = type)
    /\ [](fpc \in {"idle", "L41", "L47"} => typeOfNextNewPlugin = "wrapperType_Undefined")
    /\ [](fpc \in {"L44", "L47"} => pluginInstance # "nullptr" /\ pluginInstance = type)
    /\ [](~assertFailed)
    /\ [][fpc = "L47" /\ fpc' # fpc
            => /\ ~assertFailed'
               /\ created' = Append(created, type)]_filterVars

\* an instance was created for VST3 and then one for the undefined type,
\* each with the requested wrapperType
C26_Witness ==
    /\ fpc = "idle"
    /\ created = << "wrapperType_VST3", "wrapperType_Undefined" >>
    /\ typeOfNextNewPlugin = "wrapperType_Undefined"
    /\ ~assertFailed

\* C27 (dropped graph file is loaded) as the claim states it: on a desktop
\* build with a graph, for a drop of exactly one file with the graph suffix,
\* once the save step has reported savedOk the graph has loaded that file;
\* when the save step reported anything else the file is not loaded; and the
\* file is never scanned as a plugin.
GraphFileDrops ==
    { d \in 1..Len(dropLog) :
        /\ desktop /\ graph
        /\ Len(dropLog[d]) = 1
        /\ dropLog[d][1].ext = ".filtergraph" }

C27_DroppedGraphLoaded ==
    \A d \in GraphFileDrops :
        /\ << d, "savedOk" >> \in reported => << d, dropLog[d][1] >> \in loaded
        /\ << d, "savedOk" >> \notin reported => << d, dropLog[d][1] >> \notin loaded
        /\ << d, dropLog[d][1] >> \notin scanned

====
